---- MODULE Spec2Model ----
(***************************************************************************)
(* Task management system: the TaskList component (status filter, search,  *)
(* sort) as rendered by App, the Dashboard component, and the task store   *)
(* (the useTasks hook).  TaskList.tsx, utils/taskHelpers.ts and            *)
(* hooks/useTasks.ts are described by SUBMISSION.md and exercised by their *)
(* tests; the model follows those.  The specifications: Spec (TaskList     *)
(* under App), SpecDash (Dashboard), SpecStore (useTasks), SpecForm        *)
(* (TaskForm) and SpecApp (App with its task cards, task form, chart and   *)
(* store).                                                                 *)
(*                                                                         *)
(* Strings that the code inspects character by character (title,           *)
(* description, search query) are sequences of character codes.            *)
(***************************************************************************)
EXTENDS Integers, Sequences, FiniteSets, TLC

VARIABLES
    tasks,        \* App: const { tasks } = useTasks(); the TaskList `tasks` prop
    filter,       \* App: useState<TaskStatus | 'all'>('all')
    searchQuery,  \* App: useState('')
    sortBy,       \* TaskList: active sort button, 'createdAt' by default
    sortOrder,    \* TaskList: 'desc' by default, flipped by the toggle button
    view,         \* TaskList: the task cards rendered, in display order
    sortUsed,     \* history: a "Sort by ..." button has been clicked
    toggles,      \* history: clicks on "Toggle sort order" so far, counted
                  \* until the first click on a "Sort by ..." button (then 0)
    now,          \* the clock: the current instant
    tz,           \* the UTC offset of the browser's local time
    dash,         \* Dashboard: what its last render displays
    storage,      \* localStorage: the item kept under the key 'tasks'
    issued,       \* identifiers given to tasks so far
    call,         \* history: the last call made on the store
    saved,        \* history: invocations of saveTasksToStorage so far
    loading,      \* useTasks: the loading flag
    prior,        \* history: the identifier given by the last addTask, the
                  \* collection and the count of saves as they were before
                  \* it, and whether the next call removed that task
    form,         \* TaskForm: whether App shows it, and its fields
    event         \* history: the last user event handled by App

listVars == <<filter, searchQuery, sortBy, sortOrder, view, sortUsed, toggles>>
appVars == <<now, tz, dash, storage, issued, call, saved, loading, prior, form, event>>
vars == <<tasks, filter, searchQuery, sortBy, sortOrder, view, sortUsed, toggles,
          now, tz, dash, storage, issued, call, saved, loading, prior, form, event>>

----------------------------------------------------------------------------
(* Bounds of the model *)

MaxTasks == 2
MaxToggles == 3
MaxDashTasks == 3    \* tasks of a small collection handed to Dashboard
LargeTasks == 201    \* tasks of a large collection handed to Dashboard
MaxTicks == 8        \* quarter days the clock advances under Dashboard
MaxIds == 3          \* identifiers the store hands out, loaded ones included
MaxStoreTicks == 1   \* quarter days the clock advances under the store
MaxSaves == 3        \* invocations of saveTasksToStorage that are counted

----------------------------------------------------------------------------
(* Types (types/task.ts, as used by the fixtures) *)

TaskStatus == {"todo", "in-progress", "done"}
FilterValue == TaskStatus \cup {"all"}
Priority == {"low", "medium", "high"}
SortKey == {"createdAt", "dueDate", "priority", "title"}
SortDirection == {"asc", "desc"}

\* dueDate: undefined
NoDate == 0

----------------------------------------------------------------------------
(* Strings *)

\* String.prototype.toLowerCase on one UTF-16 code unit (ASCII letters)
LowerChar(c) == IF c >= 65 /\ c <= 90 THEN c + 32 ELSE c

ToLowerCase(s) == [i \in 1..Len(s) |-> LowerChar(s[i])]

\* String.prototype.includes: sub occurs in s as a contiguous substring
Includes(s, sub) ==
    \E i \in 0..(Len(s) - Len(sub)) : SubSeq(s, i + 1, i + Len(sub)) = sub

\* Sign of the comparison of two strings by code units, as a.title < b.title
RECURSIVE StrCmp(_, _)
StrCmp(a, b) ==
    IF a = <<>> /\ b = <<>> THEN 0
    ELSE IF a = <<>> THEN -1
    ELSE IF b = <<>> THEN 1
    ELSE IF Head(a) < Head(b) THEN -1
    ELSE IF Head(a) > Head(b) THEN 1
    ELSE StrCmp(Tail(a), Tail(b))

Sign(n) == IF n < 0 THEN -1 ELSE IF n > 0 THEN 1 ELSE 0

----------------------------------------------------------------------------
(* Array.prototype.sort: stable, ordered by the sign of the comparator.    *)
(* c[i][j] is the comparator's result on (s[i], s[j]).  Insertion sort:    *)
(* s[k] goes behind the elements already placed that do not sort after it. *)

StableSort(s, c) ==
    LET n == Len(s)
        ins[k \in 0..n] ==
            IF k = 0 THEN <<>>
            ELSE LET prev == ins[k - 1]
                     keep == Cardinality({j \in 1..(k - 1) : c[prev[j]][k] <= 0})
                 IN SubSeq(prev, 1, keep) \o <<k>> \o SubSeq(prev, keep + 1, k - 1)
    IN [k \in 1..n |-> s[ins[n][k]]]

----------------------------------------------------------------------------
(* utils/taskHelpers.ts *)

\* tasks.filter((task) => task.status === status), then
\* [...filtered].sort(...) by createdAt, newest first
CreatedDescCmp(a, b) == Sign(b.createdAt - a.createdAt)

\* variant: the predicate keeps the tasks of the other statuses
filterTasksByStatusOthers(ts, status) ==
    LET filtered == SelectSeq(ts, LAMBDA t : t.status # status)
    IN StableSort(filtered, [i \in DOMAIN filtered |-> [j \in DOMAIN filtered |->
                                CreatedDescCmp(filtered[i], filtered[j])]])

filterTasksByStatus(ts, status) ==
    LET filtered == SelectSeq(ts, LAMBDA t : t.status = status)
    IN StableSort(filtered, [i \in DOMAIN filtered |-> [j \in DOMAIN filtered |->
                                CreatedDescCmp(filtered[i], filtered[j])]])

----------------------------------------------------------------------------
(* components/TaskList.tsx *)

\* status step: the helper is called when filter is not 'all'
StatusFiltered(ts, f) ==
    IF f = "all" THEN ts ELSE filterTasksByStatus(ts, f)

\* variant: title and description compared without lower-casing
MatchesSearchCaseSensitive(t, q) ==
    \/ Includes(t.title, q)
    \/ Includes(t.description, q)

\* search step: lower-cased title or description includes lower-cased query
MatchesSearch(t, q) ==
    \/ Includes(ToLowerCase(t.title), ToLowerCase(q))
    \/ Includes(ToLowerCase(t.description), ToLowerCase(q))

SearchFiltered(ts, q) ==
    IF q = <<>> THEN ts ELSE SelectSeq(ts, LAMBDA t : MatchesSearch(t, q))

\* variant: a non-empty search is run over the whole collection
filteredTasksSearchAll(ts, f, q) ==
    IF q = <<>> THEN StatusFiltered(ts, f) ELSE SearchFiltered(ts, q)

filteredTasks(ts, f, q) == SearchFiltered(StatusFiltered(ts, f), q)

\* priorityOrder[a.priority] - priorityOrder[b.priority] sorts high first in
\* ascending order: with the default 'desc' the list shows low, medium, high
priorityOrder(p) ==
    CASE p = "high" -> 1
      [] p = "medium" -> 2
      [] p = "low" -> 3

CreatedAtCmp(a, b) == Sign(a.createdAt - b.createdAt)

\* variant: a missing due date always stands for Infinity
DueDateCmpInfinity(a, b, order) ==
    IF a.dueDate = NoDate /\ b.dueDate = NoDate THEN 0
    ELSE IF a.dueDate = NoDate THEN 1
    ELSE IF b.dueDate = NoDate THEN -1
    ELSE Sign(a.dueDate - b.dueDate)

\* a missing due date stands for Infinity when ascending and -Infinity when
\* descending; Infinity - Infinity is NaN, which sort treats as 0
DueDateCmp(a, b, order) ==
    IF a.dueDate = NoDate /\ b.dueDate = NoDate THEN 0
    ELSE IF a.dueDate = NoDate THEN (IF order = "asc" THEN 1 ELSE -1)
    ELSE IF b.dueDate = NoDate THEN (IF order = "asc" THEN -1 ELSE 1)
    ELSE Sign(a.dueDate - b.dueDate)

PriorityCmp(a, b) == Sign(priorityOrder(a.priority) - priorityOrder(b.priority))

\* variant: titles compared ignoring case
TitleCmpIgnoreCase(a, b) == StrCmp(ToLowerCase(a.title), ToLowerCase(b.title))

TitleCmp(a, b) == StrCmp(a.title, b.title)

Comparison(a, b, key, order) ==
    CASE key = "createdAt" -> CreatedAtCmp(a, b)
      [] key = "dueDate" -> DueDateCmp(a, b, order)
      [] key = "priority" -> PriorityCmp(a, b)
      [] key = "title" -> TitleCmp(a, b)

\* variant: the comparison is negated for 'asc' instead of 'desc'
CompareNegatedAsc(a, b, key, order) ==
    IF order = "desc" THEN Comparison(a, b, key, order)
    ELSE 0 - Comparison(a, b, key, order)

\* return sortOrder === 'asc' ? comparison : -comparison
Compare(a, b, key, order) ==
    IF order = "asc" THEN Comparison(a, b, key, order)
    ELSE 0 - Comparison(a, b, key, order)

\* variant: filteredTasks.sort(...) sorts the source array itself
SortedInPlace(arr, key, order) ==
    LET sorted == StableSort(arr, [i \in DOMAIN arr |-> [j \in DOMAIN arr |->
                                Compare(arr[i], arr[j], key, order)]])
    IN [out |-> sorted, src |-> sorted]

\* [...filteredTasks].sort(...): the copy is sorted, the source array is kept
SortedCopy(arr, key, order) ==
    [out |-> StableSort(arr, [i \in DOMAIN arr |-> [j \in DOMAIN arr |->
                                Compare(arr[i], arr[j], key, order)]]),
     src |-> arr]

\* One render of TaskList.  `view` is what is displayed; `tasks` is the
\* array held by the caller afterwards: filteredTasks is the very array
\* passed as the `tasks` prop when neither step built a new one.
sortedTasks(ts, f, q, key, order) ==
    LET sorted == SortedCopy(filteredTasks(ts, f, q), key, order)
    IN [view |-> sorted.out,
        tasks |-> IF f = "all" /\ q = <<>> THEN sorted.src ELSE ts]

\* variant: the button sets 'asc' instead of flipping
ToggleToAsc(order) == "asc"

Toggle(order) == IF order = "asc" THEN "desc" ELSE "asc"

----------------------------------------------------------------------------
(* Dashboard: the metrics and the chart data computed on every render.     *)
(* An instant is a count of quarter days since the epoch, in UTC; a        *)
(* dueDate "YYYY-MM-DD" is its day number; the local UTC offset is counted *)
(* in quarter days too (local time = UTC + offset).                        *)

UnitsPerDay == 4

\* new Date("YYYY-MM-DD"): a date-only string is parsed as midnight UTC
DateFromString(day) == day * UnitsPerDay

\* date.setHours(0, 0, 0, 0): the instant of midnight of the LOCAL calendar
\* day the instant falls on
setHoursMidnight(instant, offset) ==
    ((instant + offset) \div UnitsPerDay) * UnitsPerDay - offset

\* variant: the status is not looked at
isOverdueAnyStatus(task, today, offset) ==
    IF task.dueDate = NoDate THEN FALSE
    ELSE setHoursMidnight(DateFromString(task.dueDate), offset) < today

\* the filter callback of overdueTasks; `today` is already set to midnight
isOverdue(task, today, offset) ==
    IF task.dueDate = NoDate \/ task.status = "done" THEN FALSE
    ELSE setHoursMidnight(DateFromString(task.dueDate), offset) < today

overdueTasks(ts, currentTime, offset) ==
    LET today == setHoursMidnight(currentTime, offset)
    IN Len(SelectSeq(ts, LAMBDA task : isOverdue(task, today, offset)))

totalTasks(ts) == Len(ts)

\* tasks.filter((t) => t.status === status).length: completedTasks,
\* todoCount, inProgressCount and doneCount
statusCount(ts, status) == Len(SelectSeq(ts, LAMBDA t : t.status = status))

\* variant: the division is not guarded and an empty collection shows 100
PercentageOfNone(value, total) ==
    IF total > 0 THEN [num |-> value * 100, den |-> total]
    ELSE [num |-> 100, den |-> 1]

\* total > 0 ? (value / total) * 100 : 0, a double, kept as the fraction
\* num / den
Percentage(value, total) ==
    IF total > 0 THEN [num |-> value * 100, den |-> total]
    ELSE [num |-> 0, den |-> 1]

completionRate(ts) == Percentage(statusCount(ts, "done"), totalTasks(ts))

\* variant: the fraction is cut off (Math.floor)
toFixed0Floor(x) == {x.num \div x.den}

\* x.toFixed(0): the integer nearest to the double.  The double product
\* (value / total) * 100 of an exact half is the half itself (1 of 8 is
\* 12.5, shown as 13) or the double just below it (23 of 40 is
\* 57.49999999999999, shown as 57): both neighbours are results then.
toFixed0(x) ==
    LET q == x.num \div x.den
        twice == 2 * (x.num % x.den)
    IN IF twice < x.den THEN {q}
       ELSE IF twice > x.den THEN {q + 1}
       ELSE {q, q + 1}

chartData(ts) ==
    [status \in TaskStatus |->
        [value |-> statusCount(ts, status),
         status |-> status,
         percentage |-> Percentage(statusCount(ts, status), totalTasks(ts))]]

\* totalTasks > 0 ? <PieChart> : "No tasks yet"
chartShown(ts) == totalTasks(ts) > 0

\* what one render of Dashboard displays
Dashboard(ts, currentTime, offset) ==
    {[totalTasks |-> totalTasks(ts),
      completionRate |-> shown,
      overdueTasks |-> overdueTasks(ts, currentTime, offset),
      todoCount |-> statusCount(ts, "todo"),
      inProgressCount |-> statusCount(ts, "in-progress"),
      doneCount |-> statusCount(ts, "done"),
      chartData |-> chartData(ts),
      chartShown |-> chartShown(ts)] : shown \in toFixed0(completionRate(ts))}

----------------------------------------------------------------------------
(* Task store (useTasks): the collection, its three mutators, and the      *)
(* identifier and clock it draws on.  `updates` is a partial task: a       *)
(* record of the fields to replace.                                        *)

\* variant: Date.now().toString(), the identifier is the time of creation
DateNowToString(given, currentTime) == {currentTime}

\* crypto.randomUUID(): an identifier that no task has been given before;
\* identifiers are opaque, the least unused number stands for it
randomUUID(given, currentTime) ==
    {CHOOSE i \in 1..(Cardinality(given) + 1) :
        i \notin given /\ \A j \in 1..(i - 1) : j \in given}

\* new Date().toISOString(): the current instant; the text keeps all of it
toISOString(currentTime) == currentTime

\* variant: [newTask, ...tasks]
addTaskFirst(ts, draft, id, currentTime) ==
    <<[id |-> id, title |-> draft.title, description |-> draft.description,
       status |-> draft.status, priority |-> draft.priority,
       dueDate |-> draft.dueDate, createdAt |-> toISOString(currentTime),
       tags |-> draft.tags]>> \o ts

\* [...tasks, { ...task, id, createdAt }]
addTask(ts, draft, id, currentTime) ==
    Append(ts,
      [id |-> id, title |-> draft.title, description |-> draft.description,
       status |-> draft.status, priority |-> draft.priority,
       dueDate |-> draft.dueDate, createdAt |-> toISOString(currentTime),
       tags |-> draft.tags])

\* variant: { ...task, ...updates }, every field of `updates` is taken
mergeAll(task, updates) ==
    [f \in DOMAIN task |-> IF f \in DOMAIN updates THEN updates[f] ELSE task[f]]

\* the fields of `updates` replace the task's, except id and createdAt
mergeUpdates(task, updates) ==
    [f \in DOMAIN task |->
        IF f \in DOMAIN updates /\ f \notin {"id", "createdAt"}
        THEN updates[f] ELSE task[f]]

\* variant: the id is not compared, every task takes the update
updateTaskEvery(ts, id, updates) ==
    [i \in DOMAIN ts |-> mergeUpdates(ts[i], updates)]

\* variant: an id that is not found updates the last task (index -1)
updateTaskOrLast(ts, id, updates) ==
    [i \in DOMAIN ts |->
        IF ts[i].id = id \/ (i = Len(ts) /\ \A k \in DOMAIN ts : ts[k].id # id)
        THEN mergeUpdates(ts[i], updates) ELSE ts[i]]

\* tasks.map((task) => task.id === id ? merged : task)
updateTask(ts, id, updates) ==
    [i \in DOMAIN ts |->
        IF ts[i].id = id THEN mergeUpdates(ts[i], updates) ELSE ts[i]]

\* variant: tasks.splice(tasks.findIndex(...), 1); an id that is not found
\* gives index -1 and splice(-1, 1) drops the last task
deleteTaskSplice(ts, id) ==
    IF \E k \in DOMAIN ts : ts[k].id = id
    THEN SelectSeq(ts, LAMBDA task : task.id # id)
    ELSE SubSeq(ts, 1, Len(ts) - 1)

\* tasks.filter((task) => task.id !== id)
deleteTask(ts, id) == SelectSeq(ts, LAMBDA task : task.id # id)

\* localStorage.getItem('tasks') when nothing was ever stored
NoItem == [kind |-> "null"]

\* an item that is not the JSON text of a list of tasks
Unreadable == [kind |-> "unreadable"]

\* JSON.stringify(tasks): the text of the whole collection
stringify(ts) == [kind |-> "json", tasks |-> ts]

\* saveTasksToStorage(updatedTasks): the whole collection is written
saveTasksToStorage(ts) == stringify(ts)

\* variant: JSON.parse(item) without a guard, unreadable text throws
loadTasksFromStorageParse(item) ==
    CASE item.kind = "json" -> [threw |-> FALSE, tasks |-> item.tasks]
      [] item.kind = "null" -> [threw |-> FALSE, tasks |-> <<>>]
      [] item.kind = "unreadable" -> [threw |-> TRUE, tasks |-> <<>>]

\* loadTasksFromStorage(): the stored collection; the empty collection
\* when there is no item or the item cannot be read; it never throws
loadTasksFromStorage(item) ==
    IF item.kind = "json" THEN [threw |-> FALSE, tasks |-> item.tasks]
    ELSE [threw |-> FALSE, tasks |-> <<>>]

----------------------------------------------------------------------------
(* Inputs of the model *)

\* no addTask was the last call, or the call before the last
NoPrior == [id |-> 0, tasks |-> <<>>, saved |-> 0, removed |-> FALSE]

\* App does not show the task form
FormClosed == [open |-> FALSE]

\* search strings typed by the user: "", "A", "ab"
Queries == {<<>>, <<65>>, <<97, 98>>}

T(title, description, status, priority, dueDate, createdAt) ==
    [title |-> title, description |-> description, status |-> status,
     priority |-> priority, dueDate |-> dueDate, createdAt |-> createdAt]

\* Field values of the tasks the collections are built from.  Titles are
\* "a", "B", "Ab"; descriptions "b", "A"; due dates and creation times are
\* day and millisecond counts.  Every status, priority and due date occurs
\* with ties and without on each sort key, within a status and across.
TaskFields ==
    { T(<<97>>,     <<98>>, "todo",        "high",   2,      1),
      T(<<66>>,     <<98>>, "todo",        "high",   NoDate, 2),
      T(<<65, 98>>, <<65>>, "todo",        "low",    NoDate, 1),
      T(<<66>>,     <<65>>, "in-progress", "medium", 1,      1),
      T(<<97>>,     <<98>>, "in-progress", "medium", 1,      2),
      T(<<65, 98>>, <<98>>, "in-progress", "low",    2,      3),
      T(<<97>>,     <<65>>, "done",        "low",    NoDate, 2),
      T(<<66>>,     <<98>>, "done",        "medium", 2,      3) }

MkTask(i, fs) ==
    [id |-> i, title |-> fs.title, description |-> fs.description,
     status |-> fs.status, priority |-> fs.priority, dueDate |-> fs.dueDate,
     createdAt |-> fs.createdAt, tags |-> <<>>]

\* collections with distinct ids, as loaded from storage
TaskCollections ==
    UNION {{[i \in 1..n |-> MkTask(i, fs[i])] : fs \in [1..n -> TaskFields]} :
           n \in 0..MaxTasks}

\* the clock starts at midnight UTC of day 1
ClockStart == UnitsPerDay

\* local UTC offsets: UTC-6, UTC, UTC+6
Offsets == {-1, 0, 1}

----------------------------------------------------------------------------
(* State machine: App renders TaskFilter and TaskList over `tasks` *)

Render(ts, f, q, key, order) ==
    LET r == sortedTasks(ts, f, q, key, order)
    IN /\ view' = r.view
       /\ tasks' = r.tasks

Init ==
    /\ filter = "all"
    /\ searchQuery = <<>>
    /\ sortBy = "createdAt"
    /\ sortOrder = "desc"
    /\ sortUsed = FALSE
    /\ toggles = 0
    /\ now = ClockStart
    /\ tz = 0
    /\ call = [op |-> "load"]
    /\ saved = 0
    /\ loading = FALSE
    /\ prior = NoPrior
    /\ form = FormClosed
    /\ event = [type |-> "mount"]
    /\ \E loaded \in TaskCollections :
          LET r == sortedTasks(loaded, "all", <<>>, "createdAt", "desc")
          IN /\ view = r.view
             /\ tasks = r.tasks
             /\ storage = stringify(loaded)
             /\ issued = {loaded[i].id : i \in DOMAIN loaded}
             /\ dash \in Dashboard(loaded, ClockStart, 0)

\* TaskFilter button or Dashboard chart segment: onFilterChange={setFilter}
SetFilter(f) ==
    /\ filter' = f
    /\ Render(tasks, f, searchQuery, sortBy, sortOrder)
    /\ UNCHANGED <<searchQuery, sortBy, sortOrder, sortUsed, toggles, appVars>>

\* TaskFilter search input: handleSearchChange
SetSearch(q) ==
    /\ searchQuery' = q
    /\ Render(tasks, filter, q, sortBy, sortOrder)
    /\ UNCHANGED <<filter, sortBy, sortOrder, sortUsed, toggles, appVars>>

\* TaskList "Sort by ..." button
SetSortBy(key) ==
    /\ sortBy' = key
    /\ sortUsed' = TRUE
    /\ toggles' = 0
    /\ Render(tasks, filter, searchQuery, key, sortOrder)
    /\ UNCHANGED <<filter, searchQuery, sortOrder, appVars>>

\* TaskList "Toggle sort order" button
ToggleSortOrder ==
    /\ sortUsed \/ toggles < MaxToggles
    /\ toggles' = IF sortUsed THEN 0 ELSE toggles + 1
    /\ sortOrder' = Toggle(sortOrder)
    /\ Render(tasks, filter, searchQuery, sortBy, Toggle(sortOrder))
    /\ UNCHANGED <<filter, searchQuery, sortBy, sortUsed, appVars>>

Next ==
    \/ \E f \in FilterValue : SetFilter(f)
    \/ \E q \in Queries : SetSearch(q)
    \/ \E key \in SortKey : SetSortBy(key)
    \/ ToggleSortOrder

Spec == Init /\ [][Next]_vars

TypeOK ==
    /\ Len(tasks) <= MaxTasks
    /\ filter \in FilterValue
    /\ searchQuery \in Queries
    /\ sortBy \in SortKey
    /\ sortOrder \in SortDirection
    /\ sortUsed \in BOOLEAN
    /\ toggles \in 0..MaxToggles

----------------------------------------------------------------------------
(* State machine: Dashboard rendered on its own over a `tasks` prop, as in *)
(* Dashboard.spec.tsx, and rendered again as time passes                   *)

\* status and due date of the fixtures: not dated, or due on day 2
DashFields ==
    {T(<<97>>, <<98>>, status, "medium", dueDate, 1) :
        status \in TaskStatus, dueDate \in {NoDate, 2}}

\* a large collection: `done` tasks done, the others still to do
LargeCollection(done) ==
    [i \in 1..LargeTasks |->
        MkTask(i, T(<<97>>, <<98>>, IF i <= done THEN "done" ELSE "todo",
                    "medium", NoDate, 1))]

DashCollections ==
    UNION {{[i \in 1..n |-> MkTask(i, fs[i])] : fs \in [1..n -> DashFields]} :
           n \in 0..MaxDashTasks}
    \cup {LargeCollection(LargeTasks), LargeCollection(LargeTasks - 1)}

DashInit ==
    /\ filter = "all"
    /\ searchQuery = <<>>
    /\ sortBy = "createdAt"
    /\ sortOrder = "desc"
    /\ sortUsed = FALSE
    /\ toggles = 0
    /\ view = <<>>
    /\ now = ClockStart
    /\ tz \in Offsets
    /\ call = [op |-> "load"]
    /\ saved = 0
    /\ loading = FALSE
    /\ prior = NoPrior
    /\ form = FormClosed
    /\ event = [type |-> "mount"]
    /\ tasks \in DashCollections
    /\ storage = stringify(tasks)
    /\ issued = {tasks[i].id : i \in DOMAIN tasks}
    /\ dash \in Dashboard(tasks, now, tz)

\* a quarter of a day later the parent renders Dashboard again
DashboardRerender ==
    /\ now < ClockStart + MaxTicks
    /\ now' = now + 1
    /\ dash' \in Dashboard(tasks, now', tz)
    /\ UNCHANGED <<tasks, listVars, tz, storage, issued, call>>
    /\ UNCHANGED <<saved, loading, prior, form, event>>

DashNext == DashboardRerender

SpecDash == DashInit /\ [][DashNext]_vars

----------------------------------------------------------------------------
(* State machine: the task store (the useTasks hook) on its own, as in     *)
(* useTasks.spec.ts: no component is mounted.  Every mutator sets the new  *)
(* collection as state and saves it.                                       *)

\* mockTasks of useTasks.spec.ts: "T1" and "T2", the second tagged "u"
mockTasks ==
    <<[id |-> 1, title |-> <<84, 49>>, description |-> <<68, 49>>,
       status |-> "todo", priority |-> "high", dueDate |-> NoDate,
       createdAt |-> 1, tags |-> <<>>],
      [id |-> 2, title |-> <<84, 50>>, description |-> <<68, 50>>,
       status |-> "in-progress", priority |-> "medium", dueDate |-> NoDate,
       createdAt |-> 2, tags |-> <<<<117>>>>]>>

\* what loadTasksFromStorage returns: nothing, or mockTasks
StoreCollections == {<<>>, mockTasks}

\* task drafts submitted by the form: "N" without due date and tags, and
\* "W" due on day 2 with the tags "u", "i"
Drafts ==
    {[title |-> <<78>>, description |-> <<68>>, status |-> "todo",
      priority |-> "medium", dueDate |-> NoDate, tags |-> <<>>],
     [title |-> <<87>>, description |-> <<68>>, status |-> "in-progress",
      priority |-> "high", dueDate |-> 2, tags |-> <<<<117>>, <<105>>>>]}

\* partial tasks passed to updateTask: a status, several fields at once,
\* and one that carries an id and a createdAt
Updates ==
    {[status |-> "done"],
     [status |-> "done", priority |-> "low", title |-> <<85>>],
     [id |-> 2, createdAt |-> 0]}

\* identifiers passed to updateTask and deleteTask; 0 is given to no task
CallIds == 0..MaxIds

\* Dashboard is not rendered
NotMounted == [mounted |-> FALSE]

\* what localStorage holds when the hook mounts: nothing, text that cannot
\* be read, or the JSON text of a collection
StoredItems == {NoItem, Unreadable} \cup {stringify(ts) : ts \in StoreCollections}

\* two calls made one after the other by one handler, before React renders
\* again: both removals, both additions, two status updates, and an
\* addition followed by a removal
Batches ==
    {<<[op |-> "deleteTask", id |-> 1], [op |-> "deleteTask", id |-> 2]>>,
     <<[op |-> "updateTask", id |-> 1, updates |-> [status |-> "done"]],
       [op |-> "updateTask", id |-> 2, updates |-> [status |-> "done"]]>>,
     <<[op |-> "addTask", task |-> CHOOSE d \in Drafts : d.tags = <<>>],
       [op |-> "addTask", task |-> CHOOSE d \in Drafts : d.tags # <<>>]>>,
     <<[op |-> "addTask", task |-> CHOOSE d \in Drafts : d.tags = <<>>],
       [op |-> "deleteTask", id |-> 1]>>}

\* renderHook(() => useTasks()) before its effect has run
StoreInit ==
    /\ filter = "all"
    /\ searchQuery = <<>>
    /\ sortBy = "createdAt"
    /\ sortOrder = "desc"
    /\ sortUsed = FALSE
    /\ toggles = 0
    /\ now = ClockStart
    /\ tz = 0
    /\ call = [op |-> "none"]
    /\ view = <<>>
    /\ dash = NotMounted
    /\ saved = 0
    /\ loading = TRUE
    /\ prior = NoPrior
    /\ form = FormClosed
    /\ event = [type |-> "mount"]
    /\ tasks = <<>>
    /\ storage \in StoredItems
    /\ issued = {loadTasksFromStorage(storage).tasks[i].id :
                    i \in DOMAIN loadTasksFromStorage(storage).tasks}

\* the effect of the hook: setTasks(loadTasksFromStorage()); setLoading(false).
\* An exception thrown by the load leaves the hook as it was.
LoadTasks ==
    /\ loading
    /\ LET loaded == loadTasksFromStorage(storage)
       IN IF loaded.threw
          THEN /\ call' = [op |-> "load", threw |-> TRUE]
               /\ UNCHANGED <<tasks, loading>>
          ELSE /\ call' = [op |-> "load", threw |-> FALSE]
               /\ tasks' = loaded.tasks
               /\ loading' = FALSE
    /\ UNCHANGED <<storage, issued, saved, prior>>

Mount ==
    /\ LoadTasks
    /\ UNCHANGED <<listVars, now, tz, dash, form, event>>

\* variant: the new collection is set as state and not saved
SetTasksOnly(updatedTasks) ==
    /\ tasks' = updatedTasks
    /\ UNCHANGED <<storage, saved>>

\* variant: the new collection is saved and not set as state
SaveOnly(updatedTasks) ==
    /\ storage' = saveTasksToStorage(updatedTasks)
    /\ saved' = saved + 1
    /\ UNCHANGED tasks

\* setTasks(updatedTasks); saveTasksToStorage(updatedTasks)
SetTasks(updatedTasks) ==
    /\ tasks' = updatedTasks
    /\ storage' = saveTasksToStorage(updatedTasks)
    /\ saved' = saved + 1

\* useTasks().addTask(draft)
HookAddTask(draft) ==
    /\ ~loading
    /\ saved < MaxSaves
    /\ Cardinality(issued) < MaxIds
    /\ Len(tasks) < MaxIds
    /\ \E id \in randomUUID(issued, now) :
          /\ SetTasks(addTask(tasks, draft, id, now))
          /\ issued' = issued \cup {id}
          /\ prior' = [id |-> id, tasks |-> tasks, saved |-> saved, removed |-> FALSE]
    /\ call' = [op |-> "addTask", task |-> draft]
    /\ UNCHANGED loading

\* useTasks().updateTask(id, updates)
HookUpdateTask(id, updates) ==
    /\ ~loading
    /\ saved < MaxSaves
    /\ SetTasks(updateTask(tasks, id, updates))
    /\ call' = [op |-> "updateTask", id |-> id, updates |-> updates]
    /\ prior' = NoPrior
    /\ UNCHANGED <<issued, loading>>

\* useTasks().deleteTask(id)
HookDeleteTask(id) ==
    /\ ~loading
    /\ saved < MaxSaves
    /\ SetTasks(deleteTask(tasks, id))
    /\ call' = [op |-> "deleteTask", id |-> id]
    /\ prior' = IF call.op = "addTask" /\ id = prior.id
                THEN [prior EXCEPT !.removed = TRUE] ELSE NoPrior
    /\ UNCHANGED <<issued, loading>>

CallAddTask(draft) ==
    /\ HookAddTask(draft)
    /\ UNCHANGED <<listVars, now, tz, dash, form, event>>

CallUpdateTask(id, updates) ==
    /\ HookUpdateTask(id, updates)
    /\ UNCHANGED <<listVars, now, tz, dash, form, event>>

CallDeleteTask(id) ==
    /\ HookDeleteTask(id)
    /\ UNCHANGED <<listVars, now, tz, dash, form, event>>

\* what one call makes of the collection `ts` that its function closes over
updatedTasks(ts, c, id, currentTime) ==
    CASE c.op = "addTask" -> addTask(ts, c.task, id, currentTime)
      [] c.op = "updateTask" -> updateTask(ts, c.id, c.updates)
      [] c.op = "deleteTask" -> deleteTask(ts, c.id)

\* the identifiers drawn by the calls of a batch that are addTask
Drawn(batch, ids) == {ids[k] : k \in {n \in DOMAIN batch : batch[n].op = "addTask"}}

\* Two calls within one act(): the three mutators are created by the render
\* and close over its `tasks`; setTasks(updatedTasks) takes a value, so the
\* second call computes its collection from the same `tasks` as the first,
\* and its setTasks and its save replace those of the first.
CallTwice(batch) ==
    /\ ~loading
    /\ saved + 2 <= MaxSaves
    /\ Cardinality(issued) + Cardinality(Drawn(batch, <<1, 2>>)) <= MaxIds
    /\ \E id1 \in randomUUID(issued, now) :
       \E id2 \in randomUUID(issued \cup Drawn(<<batch[1]>>, <<id1>>), now) :
          /\ tasks' = updatedTasks(tasks, batch[2], id2, now)
          /\ storage' = saveTasksToStorage(updatedTasks(tasks, batch[2], id2, now))
          /\ issued' = issued \cup Drawn(batch, <<id1, id2>>)
          /\ call' = [op |-> "batch", calls |-> batch, ids |-> <<id1, id2>>]
    /\ saved' = saved + 2
    /\ prior' = NoPrior
    /\ UNCHANGED <<listVars, now, tz, dash, loading, form, event>>

\* a quarter of a day passes
Tick ==
    /\ now < ClockStart + MaxStoreTicks
    /\ now' = now + 1
    /\ UNCHANGED <<tasks, listVars, tz, dash, storage, issued, call>>
    /\ UNCHANGED <<saved, loading, prior, form, event>>

StoreNext ==
    \/ Mount
    \/ \E draft \in Drafts : CallAddTask(draft)
    \/ \E id \in CallIds, updates \in Updates : CallUpdateTask(id, updates)
    \/ \E id \in CallIds : CallDeleteTask(id)
    \/ \E batch \in Batches : CallTwice(batch)
    \/ Tick

SpecStore == StoreInit /\ [][StoreNext]_vars

----------------------------------------------------------------------------
(* components/TaskCard.tsx: the two buttons of a task card *)

\* variant: 'done' is final
nextStatusUntilDone(status) ==
    CASE status = "todo" -> "in-progress"
      [] status = "in-progress" -> "done"
      [] status = "done" -> "done"

\* the status that the "Change Status" button asks for
nextStatus(status) ==
    CASE status = "todo" -> "in-progress"
      [] status = "in-progress" -> "done"
      [] status = "done" -> "todo"

\* variant: the task is deleted without asking
confirmAlways(answer) == TRUE

\* handleDelete: window.confirm('Are you sure you want to delete ...'),
\* true when the user presses OK
confirm(answer) == answer

----------------------------------------------------------------------------
(* components/TaskForm.tsx: the fields of the form, its tag list and its   *)
(* submission                                                              *)

Space == 32

\* the string without its leading spaces
trimStart(str) ==
    IF \A i \in DOMAIN str : str[i] = Space THEN <<>>
    ELSE SubSeq(str, CHOOSE i \in DOMAIN str :
                        str[i] # Space /\ \A j \in 1..(i - 1) : str[j] = Space,
                Len(str))

\* the string without its trailing spaces
trimEnd(str) ==
    IF \A i \in DOMAIN str : str[i] = Space THEN <<>>
    ELSE SubSeq(str, 1, CHOOSE i \in DOMAIN str :
                           str[i] # Space /\ \A j \in (i + 1)..Len(str) : str[j] = Space)

\* tagInput.trim()
trim(str) == trimEnd(trimStart(str))

\* variant: the input is appended as typed, when not empty and not present
handleAddTagAsTyped(tags, tagInput) ==
    IF tagInput # <<>> /\ \A i \in DOMAIN tags : tags[i] # tagInput
    THEN Append(tags, tagInput) ELSE tags

\* handleAddTag: the trimmed input is appended unless it is empty or
\* already in the list
handleAddTag(tags, tagInput) ==
    LET trimmedTag == trim(tagInput)
    IN IF trimmedTag # <<>> /\ \A i \in DOMAIN tags : tags[i] # trimmedTag
       THEN Append(tags, trimmedTag) ELSE tags

\* handleRemoveTag: tags.filter((tag) => tag !== tagToRemove)
handleRemoveTag(tags, tagToRemove) == SelectSeq(tags, LAMBDA tag : tag # tagToRemove)

\* variant: no `required` attribute, every value is accepted
requiredAbsent(value) == TRUE

\* the `required` attribute of the title input and the description
\* textarea: the browser submits the form only with a value in the field
required(value) == value # <<>>

\* the form as App opens it: empty fields, status 'todo', priority 'medium'
EmptyForm ==
    [open |-> TRUE, title |-> <<>>, description |-> <<>>, status |-> "todo",
     priority |-> "medium", dueDate |-> NoDate, tags |-> <<>>]

\* the task that the form passes to onSubmit
submitted(fields) ==
    [title |-> fields.title, description |-> fields.description,
     status |-> fields.status, priority |-> fields.priority,
     dueDate |-> fields.dueDate, tags |-> fields.tags]

----------------------------------------------------------------------------
(* components/Dashboard.tsx: a click on the chart *)

\* variant: every status of a payload is taken
isValidTaskStatusAny(status) == TRUE

isValidTaskStatus(status) ==
    status = "todo" \/ status = "in-progress" \/ status = "done"

\* handleChartClick: the filter that App holds after the click;
\* onFilterChange is App's setFilter
handleChartClick(data, current) ==
    IF data.defined /\ isValidTaskStatus(data.status) THEN data.status ELSE current

----------------------------------------------------------------------------
(* State machine: TaskForm rendered on its own with a mock onSubmit, as in *)
(* its tests                                                               *)

\* titles and descriptions typed into the form: nothing, or one letter
Titles == {<<>>, <<78>>}
Descriptions == {<<>>, <<68>>}

\* texts typed into the tag input: "", " ", "u", " u ", "i", "u i"
TagInputs ==
    {<<>>, <<Space>>, <<117>>, <<Space, 117, Space>>, <<105>>, <<117, Space, 105>>}

FormInit ==
    /\ filter = "all"
    /\ searchQuery = <<>>
    /\ sortBy = "createdAt"
    /\ sortOrder = "desc"
    /\ sortUsed = FALSE
    /\ toggles = 0
    /\ view = <<>>
    /\ now = ClockStart
    /\ tz = 0
    /\ dash = NotMounted
    /\ call = [op |-> "none"]
    /\ saved = 0
    /\ loading = FALSE
    /\ prior = NoPrior
    /\ tasks = <<>>
    /\ storage = NoItem
    /\ issued = {}
    /\ form = EmptyForm
    /\ event = [type |-> "mount"]

\* the user fills in the title and the description
FormTypeFields(title, description) ==
    /\ form.open
    /\ form' = [form EXCEPT !.title = title, !.description = description]
    /\ event' = [type |-> "type"]

\* the user types into the tag input and clicks "Add" or presses Enter
FormAddTag(tagInput) ==
    /\ form.open
    /\ form' = [form EXCEPT !.tags = handleAddTag(form.tags, tagInput)]
    /\ event' = [type |-> "addTag", tagInput |-> tagInput]

\* the remove button of a tag shown in the form
FormRemoveTag(tag) ==
    /\ form.open
    /\ \E i \in DOMAIN form.tags : form.tags[i] = tag
    /\ form' = [form EXCEPT !.tags = handleRemoveTag(form.tags, tag)]
    /\ event' = [type |-> "removeTag", tag |-> tag]

\* the "Add Task" button: the browser checks the required fields, then
\* handleSubmit calls onSubmit with the task and resets the form
FormSubmit ==
    /\ form.open
    /\ IF required(form.title) /\ required(form.description)
       THEN /\ event' = [type |-> "submit", accepted |-> TRUE, task |-> submitted(form)]
            /\ form' = EmptyForm
       ELSE /\ event' = [type |-> "submit", accepted |-> FALSE]
            /\ UNCHANGED form

\* the form is all that changes
onlyForm ==
    /\ UNCHANGED <<tasks, listVars, now, tz, dash, storage, issued, call>>
    /\ UNCHANGED <<saved, loading, prior>>

TypeIntoForm(title, description) == FormTypeFields(title, description) /\ onlyForm

AddTag(tagInput) == FormAddTag(tagInput) /\ onlyForm

RemoveTag(tag) == FormRemoveTag(tag) /\ onlyForm

Submit == FormSubmit /\ onlyForm

FormNext ==
    \/ \E title \in Titles, description \in Descriptions : TypeIntoForm(title, description)
    \/ \E tagInput \in TagInputs : AddTag(tagInput)
    \/ \E tag \in {trim(tagInput) : tagInput \in TagInputs} : RemoveTag(tag)
    \/ Submit

SpecForm == FormInit /\ [][FormNext]_vars

----------------------------------------------------------------------------
(* State machine: App as mounted by app.integration.spec.tsx, after the    *)
(* tasks are loaded: the task cards of TaskList, the task form, TaskFilter *)
(* and Dashboard with its chart, over the store.  Every user event is      *)
(* handled to its end and React renders TaskList and Dashboard again.  The *)
(* tag list of the form is exercised under SpecForm.                       *)

storeVars == <<tasks, storage, saved, issued, prior, loading>>
sortVars == <<sortBy, sortOrder, sortUsed, toggles>>
clockVars == <<now, tz>>

\* search strings typed into TaskFilter: "", "2"
AppQueries == {<<>>, <<50>>}

\* payloads that Recharts may hand to onClick besides a segment's entry:
\* nothing, an entry without status, an entry with another status
NoData == [defined |-> FALSE, status |-> "undefined"]
OtherPayloads ==
    {NoData, [defined |-> TRUE, status |-> "undefined"], [defined |-> TRUE, status |-> "all"]}

ChartPayloads ==
    {[defined |-> TRUE, status |-> st] : st \in TaskStatus} \cup OtherPayloads

\* the entries of the segments drawn: the statuses that have tasks
Segments(shown) ==
    {[defined |-> TRUE, status |-> shown.chartData[st].status] :
        st \in {x \in TaskStatus : shown.chartShown /\ shown.chartData[x].value > 0}}

AppInit ==
    /\ filter = "all"
    /\ searchQuery = <<>>
    /\ sortBy = "createdAt"
    /\ sortOrder = "desc"
    /\ sortUsed = FALSE
    /\ toggles = 0
    /\ now = ClockStart
    /\ tz = 0
    /\ call = [op |-> "load", threw |-> FALSE]
    /\ saved = 0
    /\ loading = FALSE
    /\ prior = NoPrior
    /\ form = FormClosed
    /\ event = [type |-> "mount"]
    /\ \E item \in StoredItems :
          /\ storage = item
          /\ tasks = loadTasksFromStorage(item).tasks
          /\ issued = {tasks[i].id : i \in DOMAIN tasks}
          /\ view = sortedTasks(tasks, "all", <<>>, "createdAt", "desc").view
          /\ dash \in Dashboard(tasks, ClockStart, 0)

\* variant: Dashboard keeps what it displayed (its props are memoized)
AppRenderListOnly ==
    /\ view' = sortedTasks(tasks', filter', searchQuery', sortBy', sortOrder').view
    /\ UNCHANGED dash

\* React renders App again: TaskList and Dashboard over the new state
AppRender ==
    /\ view' = sortedTasks(tasks', filter', searchQuery', sortBy', sortOrder').view
    /\ dash' \in Dashboard(tasks', now', tz')

\* the handler calls none of the mutators of the store
NoStoreCall ==
    /\ call' = [op |-> "none"]
    /\ UNCHANGED storeVars

\* TaskCard "Delete" button of a task shown: handleDelete asks, and calls
\* onDelete(task.id), App's deleteTask, when the user confirms
ClickDelete(id, answer) ==
    /\ \E i \in DOMAIN view : view[i].id = id
    /\ event' = [type |-> "delete", id |-> id, confirmed |-> answer]
    /\ IF confirm(answer) THEN HookDeleteTask(id) ELSE NoStoreCall
    /\ UNCHANGED <<filter, searchQuery, sortVars, clockVars, form>>
    /\ AppRender

\* TaskCard "Change Status" button of a task shown:
\* onUpdate(task.id, { status: nextStatus }), App's updateTask
ClickChangeStatus(id) ==
    /\ \E i \in DOMAIN view :
          /\ view[i].id = id
          /\ HookUpdateTask(id, [status |-> nextStatus(view[i].status)])
          /\ event' = IF event.type = "status" /\ event.id = id /\ event.times < 3
                      THEN [event EXCEPT !.times = event.times + 1]
                      ELSE [type |-> "status", id |-> id, times |-> 1,
                            from |-> view[i]]
    /\ UNCHANGED <<filter, searchQuery, sortVars, clockVars, form>>
    /\ AppRender

\* a click on the chart of Dashboard: <Pie onClick={handleChartClick}>
ChartClick(data) ==
    /\ dash.chartShown
    /\ data \in Segments(dash) \cup OtherPayloads
    /\ filter' = handleChartClick(data, filter)
    /\ event' = [type |-> "chart", data |-> data]
    /\ NoStoreCall
    /\ UNCHANGED <<searchQuery, sortVars, clockVars, form>>
    /\ AppRender

\* a TaskFilter button: onFilterChange={setFilter}
ClickFilter(f) ==
    /\ filter' = f
    /\ event' = [type |-> "filter"]
    /\ NoStoreCall
    /\ UNCHANGED <<searchQuery, sortVars, clockVars, form>>
    /\ AppRender

\* the TaskFilter search box: onSearchChange={handleSearchChange}
TypeSearch(q) ==
    /\ searchQuery' = q
    /\ event' = [type |-> "search"]
    /\ NoStoreCall
    /\ UNCHANGED <<filter, sortVars, clockVars, form>>
    /\ AppRender

\* "+ Add New Task" / "Cancel": setShowForm(!showForm)
ToggleForm ==
    /\ form' = IF form.open THEN FormClosed ELSE EmptyForm
    /\ event' = [type |-> "toggleForm"]
    /\ NoStoreCall
    /\ UNCHANGED <<filter, searchQuery, sortVars, clockVars>>
    /\ AppRender

\* the user fills in the title and the description of the open form
TypeFields(title, description) ==
    /\ FormTypeFields(title, description)
    /\ NoStoreCall
    /\ UNCHANGED <<filter, searchQuery, sortVars, clockVars>>
    /\ AppRender

\* the "Add Task" button: the browser checks the required fields; the form
\* calls onSubmit, which is App's addTask(task); setShowForm(false)
SubmitForm ==
    /\ form.open
    /\ IF required(form.title) /\ required(form.description)
       THEN /\ HookAddTask(submitted(form))
            /\ form' = FormClosed
            /\ event' = [type |-> "submit", accepted |-> TRUE]
       ELSE /\ NoStoreCall
            /\ UNCHANGED form
            /\ event' = [type |-> "submit", accepted |-> FALSE]
    /\ UNCHANGED <<filter, searchQuery, sortVars, clockVars>>
    /\ AppRender

AppNext ==
    \/ \E id \in CallIds, answer \in BOOLEAN : ClickDelete(id, answer)
    \/ \E id \in CallIds : ClickChangeStatus(id)
    \/ \E data \in ChartPayloads : ChartClick(data)
    \/ \E f \in FilterValue : ClickFilter(f)
    \/ \E q \in AppQueries : TypeSearch(q)
    \/ ToggleForm
    \/ \E title \in Titles, description \in Descriptions : TypeFields(title, description)
    \/ SubmitForm

SpecApp == AppInit /\ [][AppNext]_vars

----------------------------------------------------------------------------
(* Vocabulary of the properties *)

Range(s) == {s[i] : i \in DOMAIN s}

\* tasks of the collection with the given status
WithStatus(ts, st) == {t \in Range(ts) : t.status = st}

\* two code units that are the same letter up to case
SameLetter(c, d) ==
    \/ c = d
    \/ c \in 65..90 /\ d = c + 32
    \/ d \in 65..90 /\ c = d + 32

\* q occurs in s as a substring, ignoring case
ContainsIgnoringCase(s, q) ==
    \E i \in 0..(Len(s) - Len(q)) :
        \A k \in 1..Len(q) : SameLetter(s[i + k], q[k])

MatchingSearch(ts, q) ==
    {t \in Range(ts) : \/ ContainsIgnoringCase(t.title, q)
                       \/ ContainsIgnoringCase(t.description, q)}

\* the view shows exactly the tasks of S, each once
ShowsExactly(S) == Range(view) = S /\ Len(view) = Cardinality(S)

----------------------------------------------------------------------------
(* C1: with an empty search, the view holds exactly the tasks whose status *)
(* equals the status filter, and every task when the filter is "all".      *)
C1_StatusFilterExact ==
    searchQuery = <<>> =>
        IF filter = "all" THEN ShowsExactly(Range(tasks))
        ELSE ShowsExactly(WithStatus(tasks, filter))

\* a status filter is active and separates the tasks of the collection
C1_Witness ==
    /\ searchQuery = <<>>
    /\ filter # "all"
    /\ view # <<>>
    /\ \E t \in Range(tasks) : t.status # filter

(* C2: with filter "all", the view holds exactly the tasks whose title or   *)
(* description contains the search string ignoring case; the empty search  *)
(* removes no task.                                                        *)
C2_SearchExact ==
    filter = "all" =>
        /\ ShowsExactly(MatchingSearch(tasks, searchQuery))
        /\ searchQuery = <<>> => Len(view) = Len(tasks)

\* an upper-case query finds a task through a lower-case title or
\* description, and another task is removed by the search
C2_Witness ==
    /\ filter = "all"
    /\ searchQuery = <<65>>
    /\ \E t \in Range(view) :
          ~Includes(t.title, searchQuery) /\ ~Includes(t.description, searchQuery)
    /\ Len(view) < Len(tasks)

(* C3: with a status filter and a non-empty search both active, the view    *)
(* holds exactly the tasks that pass both, in whatever order the two        *)
(* controls were set.                                                      *)
C3_FilterAndSearch ==
    (filter # "all" /\ searchQuery # <<>>) =>
        ShowsExactly(WithStatus(tasks, filter) \cap MatchingSearch(tasks, searchQuery))

\* both controls are set, a task passes both, one passes only the search
C3_Witness ==
    /\ filter # "all"
    /\ searchQuery # <<>>
    /\ view # <<>>
    /\ MatchingSearch(tasks, searchQuery) \ WithStatus(tasks, filter) # {}

(* C4: sorted by due date, in either direction, no task without a due date *)
(* comes before a task that has one.                                       *)
C4_NoDueDateLast ==
    sortBy = "dueDate" =>
        \A i, j \in DOMAIN view :
            (i < j /\ view[i].dueDate = NoDate) => view[j].dueDate = NoDate

\* descending by due date, with a dated task shown before an undated one
C4_Witness ==
    /\ sortBy = "dueDate"
    /\ sortOrder = "desc"
    /\ Len(view) = 2
    /\ view[1].dueDate # NoDate
    /\ view[2].dueDate = NoDate
    /\ filter = "all" /\ searchQuery = <<>> /\ tasks = <<view[2], view[1]>>

(* C5: sorted by due date, the tasks that have a due date come earliest     *)
(* first when ascending and latest first when descending.                  *)
C5_DueDateOrder ==
    sortBy = "dueDate" =>
        \A i, j \in DOMAIN view :
            (i < j /\ view[i].dueDate # NoDate /\ view[j].dueDate # NoDate) =>
                IF sortOrder = "asc" THEN view[i].dueDate <= view[j].dueDate
                ELSE view[i].dueDate >= view[j].dueDate

\* descending by due date: the later date is shown first, then the earlier
C5_Witness ==
    /\ sortBy = "dueDate"
    /\ sortOrder = "desc"
    /\ Len(view) = 2
    /\ view[1].dueDate = 2
    /\ view[2].dueDate = 1

\* low < medium < high
PriorityRank(p) ==
    CASE p = "low" -> 0
      [] p = "medium" -> 1
      [] p = "high" -> 2

(* C6: sorted by priority, the view shows high, then medium, then low when *)
(* descending, and low, then medium, then high when ascending.             *)
C6_PriorityOrder ==
    sortBy = "priority" =>
        \A i, j \in DOMAIN view :
            i < j =>
                IF sortOrder = "desc"
                THEN PriorityRank(view[i].priority) >= PriorityRank(view[j].priority)
                ELSE PriorityRank(view[i].priority) <= PriorityRank(view[j].priority)

\* position of a task in the collection
IndexIn(ts, t) == CHOOSE k \in DOMAIN ts : ts[k] = t

\* the two tasks are equal on the sort key
SameKey(a, b, key) ==
    CASE key = "createdAt" -> a.createdAt = b.createdAt
      [] key = "dueDate" -> a.dueDate = b.dueDate
      [] key = "priority" -> a.priority = b.priority
      [] key = "title" -> a.title = b.title

(* C7: for every sort key, direction and status filter, tasks that are      *)
(* equal on the sort key are shown in their order in the collection.       *)
C7_StableInCollectionOrder ==
    \A i, j \in DOMAIN view :
        (i < j /\ SameKey(view[i], view[j], sortBy)) =>
            IndexIn(tasks, view[i]) < IndexIn(tasks, view[j])

(* C8: until a sort button is used the view is sorted by creation time:     *)
(* newest first at the start, oldest first after one click on the          *)
(* direction toggle, newest first again after a second click.              *)
C8_DefaultSortAndToggle ==
    ~sortUsed =>
        /\ sortBy = "createdAt"
        /\ sortOrder = (IF toggles % 2 = 0 THEN "desc" ELSE "asc")
        /\ \A i, j \in DOMAIN view :
              i < j =>
                  IF toggles % 2 = 0
                  THEN view[i].createdAt >= view[j].createdAt
                  ELSE view[i].createdAt <= view[j].createdAt

\* the direction was toggled twice and the newer task is shown first again
C8_Witness ==
    /\ ~sortUsed
    /\ toggles = 2
    /\ Len(view) = 2
    /\ view[1].createdAt > view[2].createdAt
    /\ tasks = <<view[2], view[1]>>

\* a comes strictly before b in code-unit lexicographic order
LexLess(a, b) ==
    \E k \in 1..(Len(a) + 1) :
        /\ k <= Len(b)
        /\ \A m \in 1..(k - 1) : a[m] = b[m]
        /\ k <= Len(a) => a[k] < b[k]

LexLeq(a, b) == a = b \/ LexLess(a, b)

(* C9: sorted by title, the view is in case-sensitive lexicographic order   *)
(* of the titles, ascending A to Z and descending Z to A; with the default  *)
(* descending direction the greatest title is shown first.                 *)
C9_TitleOrder ==
    sortBy = "title" =>
        \A i, j \in DOMAIN view :
            i < j =>
                IF sortOrder = "asc" THEN LexLeq(view[i].title, view[j].title)
                ELSE LexLeq(view[j].title, view[i].title)

\* title selected with the direction never toggled: "a" is shown before "B"
C9_Witness ==
    /\ sortBy = "title"
    /\ sortOrder = "desc"
    /\ Len(view) = 2
    /\ view[1].title = <<97>>
    /\ view[2].title = <<66>>

\* tasks of the collection that pass the status filter and the search
Passing(ts, f, q) ==
    {t \in Range(ts) : (f = "all" \/ t.status = f)} \cap MatchingSearch(ts, q)

(* C10: a render leaves the task collection as it was, the view is a        *)
(* reordering of exactly the tasks that pass the filters, and a change of  *)
(* sort key or direction alone shows the same tasks, each once.            *)
C10_QueryIsPure ==
    /\ [](ShowsExactly(Passing(tasks, filter, searchQuery)))
    /\ [][/\ tasks' = tasks
          /\ (filter' = filter /\ searchQuery' = searchQuery) =>
                (Range(view') = Range(view) /\ Len(view') = Len(view))]_vars

\* a sort button was used and the view shows the collection reordered
C10_Witness ==
    /\ sortUsed
    /\ sortBy = "title"
    /\ filter = "all" /\ searchQuery = <<>>
    /\ Len(tasks) = 2
    /\ view = <<tasks[2], tasks[1]>>

----------------------------------------------------------------------------
(* Dashboard properties, under SpecDash *)

\* positions of the collection whose task has the given status
AtStatus(ts, st) == {i \in DOMAIN ts : ts[i].status = st}

\* the calendar day, in local time, on which an instant falls
LocalDay(instant, offset) == (instant + offset) \div UnitsPerDay

\* positions of the dated tasks that are not done
Pending(ts) ==
    {i \in DOMAIN ts : ts[i].dueDate # NoDate /\ ts[i].status # "done"}

\* positions of the pending tasks due on a calendar day before `day`
DueBefore(ts, day) == {i \in Pending(ts) : ts[i].dueDate < day}

Abs(n) == IF n < 0 THEN 0 - n ELSE n

\* the displayed rate is an integer nearest to done * 100 / total
NearestPercent(rate, done, total) ==
    2 * Abs(100 * done - rate * total) <= total

\* C11 as stated: the completion rate is 0 for the empty collection and
\* otherwise done * 100 / total rounded to the nearest integer; it is an
\* integer between 0 and 100, it is 100 exactly when all tasks are done, and
\* it is 33 for 1 done of 3.
C11_CompletionRate ==
    LET total == Len(tasks)
        done == Cardinality(AtStatus(tasks, "done"))
        rate == dash.completionRate
    IN /\ total = 0 => rate = 0
       /\ total > 0 => NearestPercent(rate, done, total)
       /\ rate \in 0..100
       /\ rate = 100 <=> (total > 0 /\ done = total)
       /\ (total = 3 /\ done = 1) => rate = 33

\* C11 amended: the completion rate is 0 for the empty collection and
\* otherwise done * 100 / total rounded to the nearest integer; it is an
\* integer between 0 and 100, it is 100 when all tasks are done and only
\* when at least 99.5% of the tasks are done, and it is 33 for 1 done of 3.
C11_CompletionRateRounded ==
    LET total == Len(tasks)
        done == Cardinality(AtStatus(tasks, "done"))
        rate == dash.completionRate
    IN /\ total = 0 => rate = 0
       /\ total > 0 => NearestPercent(rate, done, total)
       /\ rate \in 0..100
       /\ (total > 0 /\ done = total) => rate = 100
       /\ rate = 100 => (total > 0 /\ 200 * done >= 199 * total)
       /\ (total = 3 /\ done = 1) => rate = 33

\* 1 done of 3 is displayed, on a later render, as 33
C11_Witness ==
    /\ Len(tasks) = 3
    /\ Cardinality(AtStatus(tasks, "done")) = 1
    /\ now > ClockStart
    /\ dash.completionRate = 33

\* C12: overdueCount never counts a done task, even one due in the past, nor
\* a task without dueDate; a todo or in-progress task due on a calendar day
\* before today is counted, once.  In terms of the count displayed: it is at
\* least the number of pending tasks due before today and at most the
\* number of pending tasks.
C12_OverdueCount ==
    /\ dash.overdueTasks >= Cardinality(DueBefore(tasks, LocalDay(now, tz)))
    /\ dash.overdueTasks <= Cardinality(Pending(tasks))

\* a done task and a pending task both due yesterday, with an undated
\* task: one task is shown overdue
C12_Witness ==
    /\ \E i \in DOMAIN tasks :
          tasks[i].status = "done" /\ tasks[i].dueDate # NoDate
             /\ tasks[i].dueDate < LocalDay(now, tz)
    /\ \E i \in DOMAIN tasks : tasks[i].dueDate = NoDate /\ tasks[i].status # "done"
    /\ Cardinality(DueBefore(tasks, LocalDay(now, tz))) = 1
    /\ dash.overdueTasks = 1

\* C13: overdue is decided by calendar day: a task that is not done and is
\* due today or later is not counted, whatever the time of day and the
\* local UTC offset.  The count displayed is at most the number of pending
\* tasks due before today.
C13_DueTodayNotOverdue ==
    dash.overdueTasks <= Cardinality(DueBefore(tasks, LocalDay(now, tz)))

\* C14: for the empty collection every metric is zero, nothing is divided
\* by zero and the chart is not rendered; the chart is rendered exactly when
\* the collection is not empty.
C14_EmptyDashboard ==
    /\ tasks = <<>> =>
          /\ dash.totalTasks = 0
          /\ dash.completionRate = 0
          /\ dash.overdueTasks = 0
          /\ dash.todoCount = 0 /\ dash.inProgressCount = 0 /\ dash.doneCount = 0
          /\ \A st \in TaskStatus :
                dash.chartData[st].value = 0 /\ dash.chartData[st].percentage.num = 0
    /\ \A st \in TaskStatus : dash.chartData[st].percentage.den > 0
    /\ dash.chartShown <=> Len(tasks) > 0

\* the empty collection, rendered again later, shows zeros and no chart
C14_Witness ==
    /\ tasks = <<>>
    /\ now > ClockStart
    /\ dash.totalTasks = 0
    /\ ~dash.chartShown

----------------------------------------------------------------------------
(* Task store properties, under SpecStore *)

IdsOf(ts) == {ts[i].id : i \in DOMAIN ts}

\* the step is the store call `op` (the clock stands still during a call)
IsCall(op) == call'.op = op /\ now' = now

\* the collection without position k
Without(ts, k) == SubSeq(ts, 1, k - 1) \o SubSeq(ts, k + 1, Len(ts))

\* C15: add(draft) on n tasks yields n + 1 tasks: the first n are the
\* previous tasks, unchanged and in order, and the last has the draft's
\* title, description, status, priority, dueDate and tags, a newly generated
\* id and the current time as createdAt.
C15_AddAppends ==
    [][IsCall("addTask") =>
        LET n == Len(tasks)
            added == tasks'[n + 1]
            draft == call'.task
        IN /\ Len(tasks') = n + 1
           /\ SubSeq(tasks', 1, n) = tasks
           /\ added.title = draft.title
           /\ added.description = draft.description
           /\ added.status = draft.status
           /\ added.priority = draft.priority
           /\ added.dueDate = draft.dueDate
           /\ added.tags = draft.tags
           /\ added.id \notin issued
           /\ added.createdAt = now]_vars

\* the dated, tagged draft has been added, later, behind an existing task
C15_Witness ==
    /\ call.op = "addTask"
    /\ Len(tasks) >= 2
    /\ tasks[Len(tasks)].title = call.task.title
    /\ tasks[Len(tasks)].dueDate = 2
    /\ tasks[Len(tasks)].tags # <<>>
    /\ tasks[Len(tasks)].createdAt > ClockStart

\* C16: from a loaded collection with distinct ids, after any sequence of
\* add, update and remove, no two tasks have the same id.
C16_UniqueIds ==
    \A i, j \in DOMAIN tasks : i # j => tasks[i].id # tasks[j].id

\* two tasks, both added in the same instant, and an update carrying the
\* id of the second was applied to the first
C16_Witness ==
    /\ Len(tasks) = 2
    /\ tasks[1].createdAt = tasks[2].createdAt
    /\ tasks[1].createdAt >= ClockStart
    /\ call.op = "updateTask"
    /\ call.id = tasks[1].id
    /\ "id" \in DOMAIN call.updates
    /\ call.updates.id = tasks[2].id

\* C17 as stated: update(id, partialFields) for an id in the collection
\* replaces exactly the fields named in partialFields on that one task and
\* leaves that task's other fields, every other task, the number of tasks
\* and their order unchanged.
C17_UpdateReplacesNamed ==
    [][(IsCall("updateTask") /\ call'.id \in IdsOf(tasks)) =>
        /\ Len(tasks') = Len(tasks)
        /\ \A i \in DOMAIN tasks :
              IF tasks[i].id = call'.id
              THEN \A f \in DOMAIN tasks[i] :
                      tasks'[i][f] = IF f \in DOMAIN call'.updates
                                     THEN call'.updates[f] ELSE tasks[i][f]
              ELSE tasks'[i] = tasks[i]]_vars

\* C17 amended: update(id, partialFields) for an id in the collection
\* replaces exactly the fields named in partialFields other than id and
\* createdAt on that one task and leaves that task's other fields, every
\* other task, the number of tasks and their order unchanged.
C17_UpdateReplacesNamedAttributes ==
    [][(IsCall("updateTask") /\ call'.id \in IdsOf(tasks)) =>
        /\ Len(tasks') = Len(tasks)
        /\ \A i \in DOMAIN tasks :
              IF tasks[i].id = call'.id
              THEN \A f \in DOMAIN tasks[i] :
                      tasks'[i][f] = IF f \in DOMAIN call'.updates \ {"id", "createdAt"}
                                     THEN call'.updates[f] ELSE tasks[i][f]
              ELSE tasks'[i] = tasks[i]]_vars

\* several fields of the first of two tasks were replaced at once
C17_Witness ==
    /\ call.op = "updateTask"
    /\ Len(tasks) = 2
    /\ call.id = tasks[1].id
    /\ DOMAIN call.updates = {"status", "priority", "title"}
    /\ tasks[1].title = call.updates.title
    /\ tasks[1].priority = call.updates.priority
    /\ tasks[2].status # "done"

\* C18: id and createdAt of a task never change between its creation and
\* its removal: an update, also one whose partialFields carry an id or a
\* createdAt, leaves the ids and the creation times of all tasks as they
\* are, and across every step a task found again by its id has the
\* createdAt it had.
C18_IdAndCreatedAtKept ==
    [][/\ IsCall("updateTask") =>
            /\ Len(tasks') = Len(tasks)
            /\ \A i \in DOMAIN tasks :
                  /\ tasks'[i].id = tasks[i].id
                  /\ tasks'[i].createdAt = tasks[i].createdAt
       /\ \A i \in DOMAIN tasks, j \in DOMAIN tasks' :
              tasks'[j].id = tasks[i].id => tasks'[j].createdAt = tasks[i].createdAt]_vars

\* a task created by add was the target of an update carrying another id
\* and another createdAt, and has kept its own
C18_Witness ==
    /\ call.op = "updateTask"
    /\ DOMAIN call.updates = {"id", "createdAt"}
    /\ \E i \in DOMAIN tasks :
          /\ tasks[i].id = call.id
          /\ tasks[i].id # call.updates.id
          /\ tasks[i].createdAt >= ClockStart
          /\ tasks[i].createdAt # call.updates.createdAt

\* C19: update(id, partialFields) with an id that is not in the collection
\* leaves the collection exactly as it was.
C19_UpdateMissingIsNoOp ==
    [][(IsCall("updateTask") /\ call'.id \notin IdsOf(tasks)) =>
        tasks' = tasks]_vars

\* an update was called with an id no task of a non-empty collection has
C19_Witness ==
    /\ call.op = "updateTask"
    /\ call.id \notin IdsOf(tasks)
    /\ "status" \in DOMAIN call.updates
    /\ Len(tasks) = 2
    /\ \A i \in DOMAIN tasks : tasks[i].status # "done"

\* C20: remove(id) for an id in the collection yields the collection
\* without that task, the other tasks unchanged and in the same order;
\* remove(id) for an absent id leaves the collection unchanged.
C20_RemoveOnlyThatTask ==
    [][IsCall("deleteTask") =>
        IF call'.id \in IdsOf(tasks)
        THEN \E k \in DOMAIN tasks :
                tasks[k].id = call'.id /\ tasks' = Without(tasks, k)
        ELSE tasks' = tasks]_vars

\* the first of two loaded tasks was removed and the second is left
C20_Witness ==
    /\ call.op = "deleteTask"
    /\ call.id = 1
    /\ tasks = <<mockTasks[2]>>

\* C21: from any collection, add(draft) followed by remove of the id just
\* assigned returns the collection to exactly its prior state, and the
\* storage save operation has been invoked exactly twice, once per
\* mutation.
C21_AddThenRemove ==
    prior.removed =>
        /\ tasks = prior.tasks
        /\ saved = prior.saved + 2

\* a draft was added to the two loaded tasks and removed again, after an
\* earlier call had already saved once
C21_Witness ==
    /\ prior.removed
    /\ call.op = "deleteTask"
    /\ call.id = prior.id
    /\ prior.tasks # <<>>
    /\ Len(tasks) = 2
    /\ saved = 3

\* the collection that a reload would find in the stored item
Persisted(item) == IF item.kind = "json" THEN item.tasks ELSE <<>>

\* C22: once an add, update or remove has completed and written to
\* storage, the collection last written is the in-memory collection, and
\* in no state after the initial load do the persisted and the in-memory
\* collections differ.
C22_PersistedIsInMemory ==
    /\ saved > 0 => storage = stringify(tasks)
    /\ ~loading => Persisted(storage) = tasks

\* the status of the first loaded task was updated and the stored
\* collection shows it next to the second task
C22_Witness ==
    /\ call.op = "updateTask"
    /\ call.id = 1
    /\ storage.kind = "json"
    /\ Len(storage.tasks) = 2
    /\ storage.tasks[1].status = "done"
    /\ tasks[1].status = "done"
    /\ tasks[2] = mockTasks[2]

\* C23: on startup the collection equals what the storage load returns;
\* when storage holds no data or unreadable data the collection starts
\* empty and no error reaches the caller; after initialization the loading
\* flag is false.
C23_InitialLoad ==
    call.op = "load" =>
        /\ ~call.threw
        /\ ~loading
        /\ tasks = Persisted(storage)
        /\ storage \in {NoItem, Unreadable} => tasks = <<>>

\* the hook has mounted over an item that cannot be read
C23_Witness ==
    /\ call.op = "load"
    /\ storage = Unreadable
    /\ tasks = <<>>
    /\ ~loading

\* the calls of a batch applied one at a time, in order, each to the
\* collection that the call before it left
InOrder(ts, calls, ids, currentTime) ==
    updatedTasks(updatedTasks(ts, calls[1], ids[1], currentTime),
                 calls[2], ids[2], currentTime)

\* C30: store mutations do not lose updates: after two calls issued one
\* after the other within the same UI event, before a re-render, the
\* in-memory collection and the persisted collection both equal the result
\* of applying the calls one at a time in order to the collection before.
C30_NoLostUpdate ==
    [][(call'.op = "batch" /\ now' = now) =>
        LET expected == InOrder(tasks, call'.calls, call'.ids, now)
        IN /\ tasks' = expected
           /\ Persisted(storage') = expected]_vars

----------------------------------------------------------------------------
(* Properties of the App, under SpecApp *)

\* C24: a task is removed from the collection through the Delete button
\* only after the user confirms the confirmation dialog; when the user
\* cancels, the delete operation is never invoked and the collection is
\* unchanged.
C24_DeleteNeedsConfirmation ==
    [][event'.type = "delete" =>
        IF event'.confirmed
        THEN /\ call' = [op |-> "deleteTask", id |-> event'.id]
             /\ IdsOf(tasks') = IdsOf(tasks) \ {event'.id}
        ELSE /\ call'.op = "none"
             /\ tasks' = tasks
             /\ storage' = storage]_vars

\* the user cancelled the deletion of one of two tasks, after an earlier
\* change had been saved
C24_Witness ==
    /\ event.type = "delete"
    /\ ~event.confirmed
    /\ event.id \in IdsOf(tasks)
    /\ Len(tasks) = 2
    /\ saved > 0

\* C25: no task with an empty title or an empty description ever enters
\* the collection through the task form: a submit attempt with either
\* field empty does not invoke add, and the collection and the persisted
\* data stay unchanged.
C25_RequiredFields ==
    [][/\ (event'.type = "submit" /\ (form.title = <<>> \/ form.description = <<>>)) =>
            /\ call'.op = "none"
            /\ tasks' = tasks
            /\ storage' = storage
       /\ \A i \in DOMAIN tasks' :
              tasks'[i].id \notin IdsOf(tasks) =>
                  tasks'[i].title # <<>> /\ tasks'[i].description # <<>>]_vars

\* the form was submitted with a title and without a description, over a
\* collection that holds tasks, and is still open as it was
C25_Witness ==
    /\ event.type = "submit"
    /\ ~event.accepted
    /\ form.open
    /\ form.title # <<>>
    /\ form.description = <<>>
    /\ call.op = "none"
    /\ tasks # <<>>

\* the cycle of the statuses
StatusCycle == <<"todo", "in-progress", "done">>

\* the status that follows st in the cycle
Following(st) ==
    LET k == CHOOSE n \in DOMAIN StatusCycle : StatusCycle[n] = st
    IN StatusCycle[(k % Len(StatusCycle)) + 1]

\* the task of the collection with the given id
TaskWithId(ts, id) == ts[CHOOSE i \in DOMAIN ts : ts[i].id = id]

\* C27: the Change Status action on a task issues
\* update(task.id, {status: next}) where next follows the cycle
\* todo -> in-progress -> done -> todo; applying the action three times to
\* the same task returns it to its original status, and no other field of
\* the task changes.
C27_StatusCycle ==
    [][event'.type = "status" =>
        LET id == event'.id
            before == TaskWithId(tasks, id)
            after == TaskWithId(tasks', id)
        IN /\ call' = [op |-> "updateTask", id |-> id,
                       updates |-> [status |-> Following(before.status)]]
           /\ after = [before EXCEPT !.status = Following(before.status)]
           /\ event'.times = 3 => after = event'.from]_vars

\* the status of the second loaded task, 'in-progress' at first, was
\* changed three times in a row
C27_Witness ==
    /\ event.type = "status"
    /\ event.times = 3
    /\ event.id = 2
    /\ event.from.status = "in-progress"
    /\ call.updates.status = "in-progress"
    /\ tasks[2] = mockTasks[2]

\* C28: clicking a chart segment sets the application's status filter to
\* that segment's status, which is always one of todo, in-progress, done
\* (never "all"); a click whose payload has no valid status leaves the
\* filter unchanged; in neither case are the task collection or the search
\* query changed.
C28_ChartClickSetsFilter ==
    [][event'.type = "chart" =>
        LET data == event'.data
        IN /\ IF data.defined /\ data.status \in TaskStatus
              THEN filter' = data.status
              ELSE filter' = filter
           /\ data \in Segments(dash) => (filter' = data.status /\ filter' \in TaskStatus)
           /\ tasks' = tasks
           /\ searchQuery' = searchQuery]_vars

\* a click whose payload carries the status "all" has left the filter
\* 'done' and the typed search as they were
C28_Witness ==
    /\ event.type = "chart"
    /\ event.data.defined
    /\ event.data.status = "all"
    /\ filter = "done"
    /\ searchQuery # <<>>
    /\ tasks # <<>>

\* C29: after every completed add, update or remove, the dashboard is
\* computed from the current collection: total equals the number of tasks
\* in the collection, and the three status counts (todo, in-progress, done)
\* sum to total, with each chart entry's value equal to the corresponding
\* status count.
C29_DashboardFollowsCollection ==
    /\ dash.totalTasks = Len(tasks)
    /\ dash.todoCount = Cardinality(AtStatus(tasks, "todo"))
    /\ dash.inProgressCount = Cardinality(AtStatus(tasks, "in-progress"))
    /\ dash.doneCount = Cardinality(AtStatus(tasks, "done"))
    /\ dash.todoCount + dash.inProgressCount + dash.doneCount = dash.totalTasks
    /\ dash.chartData["todo"].value = dash.todoCount
    /\ dash.chartData["in-progress"].value = dash.inProgressCount
    /\ dash.chartData["done"].value = dash.doneCount

\* a status was changed to 'done', then the other task was deleted: the
\* dashboard shows one task, done
C29_Witness ==
    /\ call.op = "deleteTask"
    /\ saved >= 2
    /\ Len(tasks) = 1
    /\ tasks[1].status = "done"
    /\ dash.totalTasks = 1
    /\ dash.doneCount = 1
    /\ dash.chartData["todo"].value = 0

----------------------------------------------------------------------------
(* Properties of the task form, under SpecForm *)

\* the string is empty or holds spaces only
IsBlank(str) == \A i \in DOMAIN str : str[i] = Space

\* t is what is left of str when the spaces around it are taken away
IsTrimmed(t, str) ==
    /\ t # <<>> => (t[1] # Space /\ t[Len(t)] # Space)
    /\ \E before \in 0..Len(str) :
          /\ before + Len(t) <= Len(str)
          /\ SubSeq(str, before + 1, before + Len(t)) = t
          /\ \A i \in 1..before : str[i] = Space
          /\ \A i \in (before + Len(t) + 1)..Len(str) : str[i] = Space

\* C26: after any sequence of add-tag and remove-tag actions the form's tag
\* list contains no duplicate values and no empty or whitespace-only
\* strings; an added tag is stored trimmed, adding an already-present tag
\* or a blank input leaves the list unchanged, and the submitted task
\* carries the tags in order of addition.
C26_TagList ==
    [][/\ \A i \in DOMAIN form'.tags :
              /\ ~IsBlank(form'.tags[i])
              /\ \A j \in DOMAIN form'.tags : i # j => form'.tags[i] # form'.tags[j]
       /\ event'.type = "addTag" =>
              IF \/ IsBlank(event'.tagInput)
                 \/ \E i \in DOMAIN form.tags : IsTrimmed(form.tags[i], event'.tagInput)
              THEN form'.tags = form.tags
              ELSE /\ Len(form'.tags) = Len(form.tags) + 1
                   /\ SubSeq(form'.tags, 1, Len(form.tags)) = form.tags
                   /\ IsTrimmed(form'.tags[Len(form'.tags)], event'.tagInput)
       /\ (event'.type = "submit" /\ event'.accepted) =>
              event'.task.tags = form.tags]_vars

\* " u " was typed into the tag input after "i" had been added, and the
\* list holds "i" and then "u"
C26_Witness ==
    /\ event.type = "addTag"
    /\ event.tagInput = <<Space, 117, Space>>
    /\ form.tags = <<<<105>>, <<117>>>>
    /\ form.title # <<>>
====
